---- MODULE Spec2Model ----
(***************************************************************************)
(* Hospital management system: the SQLite store of hospital_app.py (schema, *)
(* triggers, seed rows, book_appointment) and the Flask handlers of app.py  *)
(* that write to it (book, patient_delete, doctor_delete, ensure_db).       *)
(*                                                                          *)
(* Spec      : callers act one after the other; each action is one whole    *)
(*             handler (connect, statement, commit or rollback, close).     *)
(* SpecAdmin : patient and doctor forms, deletes, re-seeding and page reads. *)
(* SpecReports: bookings and cancellations with reports and listings.       *)
(* SpecRace  : two callers, each on its own connection, interleave the      *)
(*             steps of a booking (connect, INSERT, commit, close) under    *)
(*             SQLite's database-wide write lock.                           *)
(* SpecCascade: two callers book while a third deletes a patient or a      *)
(*             doctor, step by step under the same lock.                    *)
(* SpecRelease: callers of book_appointment in one process; a failed call   *)
(*             leaves its connection behind.                                *)
(***************************************************************************)
EXTENDS Integers, Sequences, FiniteSets, TLC

VARIABLES
    db,       \* the committed content of hospital.db
    last,     \* the operation that ran last under Spec, its outcome, and
              \* the number n of Appointments rows its foreign-key action hit
    created,  \* history: number of appointments ever successfully created
    pc,       \* SpecRace: position of each caller inside its booking
    req,      \* SpecRace: the booking each caller is attempting
    res,      \* SpecRace: the outcome of each caller's attempt
    work,     \* SpecRace: the store as seen through each caller's connection
    writer,   \* SpecRace: the connection holding the write lock, or NoWriter
    raced     \* SpecRace history: callers whose attempt overlapped another's

vars == <<db, last, created, pc, req, res, work, writer, raced>>

----------------------------------------------------------------------------
(* Bounds and value domains *)

MaxAppts == 2          \* cap on the Appointments AUTOINCREMENT counter
MaxPatients == 3       \* cap on the Patients AUTOINCREMENT counter
MaxDoctors == 3        \* cap on the Doctors AUTOINCREMENT counter

NULL == 0              \* SQL NULL in an integer column (row ids start at 1)

PatientIds == {1, 2}
DoctorIds  == {1, 2}
RoomIds    == {1}      \* the room that requests name and that may be deleted
T1 == "2025-08-30 09:00"
T2 == "2025-08-30 10:00"
T3 == "2025-08-31 09:00"
Times      == {T1, T2}
Statuses   == {"Booked", "Completed", "Cancelled"}
Callers    == {"A", "B", "C"}
Bookers    == {"A", "B"}   \* the callers that book; the third one deletes
NoWriter   == "none"
NullText   == "<NULL>" \* SQL NULL in a text column (end_time not given)

(* The bookings a caller may ask for. *)
Requests ==
    [patient_id : PatientIds, doctor_id : DoctorIds,
     room_id : RoomIds \cup {NULL}, start_time : {T1},
     end_time : {NullText}, notes : {""}]
    \cup
    [patient_id : {2}, doctor_id : {1},
     room_id : RoomIds \cup {NULL}, start_time : {T2},
     end_time : {"2025-08-30 10:30"}, notes : {"Initial consultation"}]

NoRequest == [patient_id |-> NULL, doctor_id |-> NULL, room_id |-> NULL,
              start_time |-> "", end_time |-> NullText, notes |-> ""]

----------------------------------------------------------------------------
(* Schema and seed rows *)

SeedPatients ==
    { [patient_id |-> 1, full_name |-> "Alice Johnson", email |-> "alice@example.com"],
      [patient_id |-> 2, full_name |-> "Bob Perera",    email |-> "bob@example.com"] }

SeedDoctors ==
    { [doctor_id |-> 1, full_name |-> "Dr. Nimal Fernando"],
      [doctor_id |-> 2, full_name |-> "Dr. Isuri Ranasinghe"] }

SeedRooms ==
    { [room_id |-> 1, room_number |-> "C101"],
      [room_id |-> 2, room_number |-> "C102"],
      [room_id |-> 3, room_number |-> "W201"] }

(* INSERT OR IGNORE of rows with explicit ids: a row is skipped when a row  *)
(* with its primary key or with its UNIQUE column already exists.           *)
InsertWithFreshIds(rows, seed, key, uniq) ==
    rows \cup { [s EXCEPT ![key] = @ + Cardinality(rows)] : s \in seed }

InsertOrIgnore(rows, seed, key, uniq) ==
    rows \cup { s \in seed :
                  \A r \in rows : r[key] # s[key] /\ r[uniq] # s[uniq] }

(* sqlite_sequence after rows with explicit ids were inserted: the counter *)
(* of an AUTOINCREMENT table never falls below the largest id stored.      *)
SeqAfter(old, rows, key) ==
    IF \E r \in rows : r[key] > old
      THEN CHOOSE m \in { r[key] : r \in rows } :
               \A r \in rows : r[key] <= m
      ELSE old

SeedSql(d) ==
    LET patients == InsertOrIgnore(d.Patients, SeedPatients, "patient_id", "email")
        doctors  == InsertOrIgnore(d.Doctors, SeedDoctors, "doctor_id", "doctor_id")
        rooms    == InsertOrIgnore(d.Rooms, SeedRooms, "room_id", "room_number")
    IN  [d EXCEPT
           !.Patients = patients,
           !.Doctors  = doctors,
           !.Rooms    = rooms,
           !.seq.Patients = SeqAfter(@, patients \ d.Patients, "patient_id"),
           !.seq.Doctors  = SeqAfter(@, doctors \ d.Doctors, "doctor_id")]

EmptyDb ==
    [Patients |-> {}, Doctors |-> {}, Rooms |-> {}, Appointments |-> {},
     AuditLog |-> <<>>,
     seq |-> [Appointments |-> 0, AuditLog |-> 0, Patients |-> 0, Doctors |-> 0]]

----------------------------------------------------------------------------
(* The INSERT INTO Appointments statement with its triggers *)

PatientExists(d, p) == \E x \in d.Patients : x.patient_id = p
DoctorExists(d, k)  == \E x \in d.Doctors : x.doctor_id = k
RoomExists(d, k)    == \E x \in d.Rooms : x.room_id = k

(* trg_no_double_book_doctor: the WHEN clause *)
DoctorBusyBookedOnly(d, r) ==
    \E a \in d.Appointments :
        /\ a.doctor_id = r.doctor_id
        /\ a.start_time = r.start_time
        /\ a.status = "Booked"

DoctorBusyAnyStatus(d, r) ==
    \E a \in d.Appointments :
        /\ a.doctor_id = r.doctor_id
        /\ a.start_time = r.start_time

DoctorBusy(d, r) ==
    \E a \in d.Appointments :
        /\ a.doctor_id = r.doctor_id
        /\ a.start_time = r.start_time
        /\ a.status # "Cancelled"

(* trg_no_double_book_room: the WHEN clause *)
RoomBusyNullMatches(d, r) ==
    \E a \in d.Appointments :
        /\ a.room_id = r.room_id
        /\ a.start_time = r.start_time
        /\ a.status # "Cancelled"

RoomBusy(d, r) ==
    /\ r.room_id # NULL
    /\ \E a \in d.Appointments :
          /\ a.room_id = r.room_id
          /\ a.start_time = r.start_time
          /\ a.status # "Cancelled"

(* The three FOREIGN KEY clauses of Appointments, enforced because every   *)
(* connection runs PRAGMA foreign_keys = ON.                               *)
ForeignKeysOff(d, r) == TRUE

ForeignKeysOk(d, r) ==
    /\ PatientExists(d, r.patient_id)
    /\ DoctorExists(d, r.doctor_id)
    /\ r.room_id # NULL => RoomExists(d, r.room_id)

(* The row the statement stores: AUTOINCREMENT id, status defaults to      *)
(* 'Booked'.                                                                *)
NewRowLargestRowidPlusOne(d, r) ==
    [appointment_id |->
         IF d.Appointments = {} THEN 1
         ELSE 1 + (CHOOSE m \in { a.appointment_id : a \in d.Appointments } :
                       \A a \in d.Appointments : a.appointment_id <= m),
     patient_id |-> r.patient_id, doctor_id |-> r.doctor_id,
     room_id |-> r.room_id, start_time |-> r.start_time,
     end_time |-> r.end_time, notes |-> r.notes,
     status |-> "Booked"]

NewRow(d, r) ==
    [appointment_id |-> d.seq.Appointments + 1,
     patient_id |-> r.patient_id, doctor_id |-> r.doctor_id,
     room_id |-> r.room_id, start_time |-> r.start_time,
     end_time |-> r.end_time, notes |-> r.notes,
     status |-> "Booked"]

RowStored(d, row) ==
    [d EXCEPT !.Appointments = @ \cup {row},
              !.seq.Appointments = row.appointment_id]

(* trg_appointments_insert_log: AFTER INSERT, one AuditLog row *)
TrgInsertLogSkipped(d, row) == d

TrgInsertLog(d, row) ==
    [d EXCEPT
       !.AuditLog = Append(@,
            [log_id |-> d.seq.AuditLog + 1,
             entity |-> "Appointments", action |-> "INSERT",
             appointment_id |-> row.appointment_id,
             patient_id |-> row.patient_id, doctor_id |-> row.doctor_id,
             start_time |-> row.start_time]),
       !.seq.AuditLog = @ + 1]

(* One execution of the INSERT on a connection whose view of the store is  *)
(* d.  The BEFORE triggers run first, the room trigger (created last)      *)
(* before the doctor trigger; then the row is written and the AFTER        *)
(* trigger logs it; the foreign keys are checked when the statement ends.  *)
(* A failing statement is backed out as a whole.                           *)
InsertAppointmentOneMessage(d, r) ==
    IF RoomBusy(d, r) \/ DoctorBusy(d, r)
      THEN [db |-> d, res |-> "DoctorConflict", id |-> NULL]
    ELSE LET row == NewRow(d, r)
             written == TrgInsertLog(RowStored(d, row), row)
         IN  IF ForeignKeysOk(d, r)
               THEN [db |-> written, res |-> "ok", id |-> row.appointment_id]
               ELSE [db |-> d, res |-> "ForeignKey", id |-> NULL]

InsertAppointment(d, r) ==
    IF RoomBusy(d, r)
      THEN [db |-> d, res |-> "RoomConflict", id |-> NULL]
    ELSE IF DoctorBusy(d, r)
      THEN [db |-> d, res |-> "DoctorConflict", id |-> NULL]
    ELSE LET row == NewRow(d, r)
             written == TrgInsertLog(RowStored(d, row), row)
         IN  IF ForeignKeysOk(d, r)
               THEN [db |-> written, res |-> "ok", id |-> row.appointment_id]
               ELSE [db |-> d, res |-> "ForeignKey", id |-> NULL]

(* book_appointment / book as a whole: connect, INSERT, then commit on     *)
(* success; on an IntegrityError nothing is committed and the connection   *)
(* is closed, which discards its transaction.                              *)
BookAppointmentKeepsWrite(d, r) ==
    LET st == InsertAppointment(d, r)
        row == NewRow(d, r)
    IN  IF st.res = "ok" THEN st
        ELSE [db |-> TrgInsertLog(RowStored(d, row), row), res |-> st.res,
              id |-> NULL]

BookAppointment(d, r) ==
    LET st == InsertAppointment(d, r)
    IN  IF st.res = "ok" THEN st
        ELSE [db |-> d, res |-> st.res, id |-> NULL]

----------------------------------------------------------------------------
(* Deletes and status changes *)

(* DELETE FROM Patients WHERE patient_id = ?, with ON DELETE CASCADE *)
DeletePatientNoCascade(d, p) ==
    [d EXCEPT !.Patients = { x \in @ : x.patient_id # p }]

DeletePatient(d, p) ==
    [d EXCEPT !.Patients = { x \in @ : x.patient_id # p },
              !.Appointments = { a \in @ : a.patient_id # p }]

(* DELETE FROM Doctors WHERE doctor_id = ?, with ON DELETE CASCADE *)
DeleteDoctor(d, k) ==
    [d EXCEPT !.Doctors = { x \in @ : x.doctor_id # k },
              !.Appointments = { a \in @ : a.doctor_id # k }]

(* Deleting a Rooms row, with ON DELETE SET NULL *)
DeleteRoomCascades(d, k) ==
    [d EXCEPT !.Rooms = { x \in @ : x.room_id # k },
              !.Appointments = { a \in @ : a.room_id # k }]

DeleteRoom(d, k) ==
    [d EXCEPT !.Rooms = { x \in @ : x.room_id # k },
              !.Appointments =
                  { IF a.room_id = k THEN [a EXCEPT !.room_id = NULL] ELSE a
                    : a \in @ }]

(* Booked -> Completed / Cancelled on one appointment *)
SetStatus(d, id, s) ==
    [d EXCEPT !.Appointments =
        { IF a.appointment_id = id THEN [a EXCEPT !.status = s] ELSE a
          : a \in @ }]

----------------------------------------------------------------------------
(* Text values: bytes, BINARY collation, substr(), str.strip() *)

Bytes ==
    ("" :> <<>>)
    @@ (" " :> <<32>>)
    @@ ("Carol" :> <<67, 97, 114, 111, 108>>)
    @@ ("<US>Carol<FS>" :> <<31, 67, 97, 114, 111, 108, 28>>)
    @@ ("Alice Johnson" :> <<65, 108, 105, 99, 101, 32, 74, 111, 104, 110, 115, 111, 110>>)
    @@ ("Bob Perera" :> <<66, 111, 98, 32, 80, 101, 114, 101, 114, 97>>)
    @@ ("alice@example.com" :> <<97, 108, 105, 99, 101, 64, 101, 120, 97, 109, 112, 108, 101, 46, 99, 111, 109>>)
    @@ ("bob@example.com" :> <<98, 111, 98, 64, 101, 120, 97, 109, 112, 108, 101, 46, 99, 111, 109>>)
    @@ ("Female" :> <<70, 101, 109, 97, 108, 101>>)
    @@ ("Dr. Nimal Fernando" :> <<68, 114, 46, 32, 78, 105, 109, 97, 108, 32, 70, 101, 114, 110, 97, 110, 100, 111>>)
    @@ ("Dr. Isuri Ranasinghe" :> <<68, 114, 46, 32, 73, 115, 117, 114, 105, 32, 82, 97, 110, 97, 115, 105, 110, 103, 104, 101>>)
    @@ ("Cardiology" :> <<67, 97, 114, 100, 105, 111, 108, 111, 103, 121>>)
    @@ ("C101" :> <<67, 49, 48, 49>>)
    @@ ("C102" :> <<67, 49, 48, 50>>)
    @@ ("W201" :> <<87, 50, 48, 49>>)
    @@ ("2025-08-30 09:00" :> <<50, 48, 50, 53, 45, 48, 56, 45, 51, 48, 32, 48, 57, 58, 48, 48>>)
    @@ ("2025-08-30 10:00" :> <<50, 48, 50, 53, 45, 48, 56, 45, 51, 48, 32, 49, 48, 58, 48, 48>>)
    @@ ("2025-08-31 09:00" :> <<50, 48, 50, 53, 45, 48, 56, 45, 51, 49, 32, 48, 57, 58, 48, 48>>)
    @@ ("2025-08-30" :> <<50, 48, 50, 53, 45, 48, 56, 45, 51, 48>>)
    @@ ("2025-08-31" :> <<50, 48, 50, 53, 45, 48, 56, 45, 51, 49>>)
    @@ ("2025-08" :> <<50, 48, 50, 53, 45, 48, 56>>)

(* memcmp order of two texts, as ORDER BY applies it (BINARY collation) *)
TextLess(a, b) ==
    LET x == Bytes[a]
        y == Bytes[b]
    IN  \E i \in 1..(Len(x) + 1) :
            /\ \A j \in 1..(i - 1) : j <= Len(y) /\ x[j] = y[j]
            /\ i <= Len(y)
            /\ (i <= Len(x) => x[i] < y[i])

(* substr(text, 1, n): the first n bytes, fewer if the text is shorter *)
Substr(t, n) ==
    LET x == Bytes[t]
    IN  SubSeq(x, 1, IF Len(x) < n THEN Len(x) ELSE n)

(* The characters str.strip() removes (str.isspace): tab, LF, VT, FF, CR,   *)
(* the separators FS, GS, RS, US, and the space.  The texts of the model   *)
(* are ASCII, one byte per character; the whitespace beyond one byte       *)
(* (U+0085, U+00A0, U+2000..) does not occur in them.                      *)
Whitespace == {9, 10, 11, 12, 13, 28, 29, 30, 31, 32}

(* str.strip(): leading and trailing whitespace removed *)
Strip(t) ==
    LET x == Bytes[t]
        keep == { i \in 1..Len(x) : x[i] \notin Whitespace }
    IN  IF keep = {} THEN ""
        ELSE LET lo == CHOOSE i \in keep : \A j \in keep : i <= j
                 hi == CHOOSE i \in keep : \A j \in keep : j <= i
             IN  CHOOSE u \in DOMAIN Bytes : Bytes[u] = SubSeq(x, lo, hi)

(* The rows of set S as a sequence in the strict total order Before *)
Sorted(S, Before(_, _)) ==
    [i \in 1..Cardinality(S) |->
        CHOOSE x \in S : Cardinality({ y \in S : Before(y, x) }) = i - 1]

----------------------------------------------------------------------------
(* Patients and doctors: the INSERT statements and their handlers *)

Genders == {"Male", "Female", "Other"}

(* What the form of /patients/new and /doctors/new may carry.  The name    *)
(* written "<US>Carol<FS>" is the text chr(31) + "Carol" + chr(28).        *)
PatientForms ==
    { [full_name |-> "Carol", gender |-> "Female", email |-> " "],
      [full_name |-> "<US>Carol<FS>", gender |-> "Female",
       email |-> "alice@example.com"],
      [full_name |-> "Carol", gender |-> "", email |-> ""],
      [full_name |-> " ", gender |-> "Female", email |-> ""] }

DoctorForms ==
    { [full_name |-> "Dr. Nimal Fernando", specialization |-> "Cardiology"],
      [full_name |-> "Dr. Nimal Fernando", specialization |-> " "],
      [full_name |-> "", specialization |-> "Cardiology"] }

(* INSERT INTO Patients: CHECK on gender, then UNIQUE on email.  Two NULL   *)
(* emails never collide; any two equal texts do, the empty text included.  *)
InsertPatient(d, v) ==
    IF v.gender \notin Genders
      THEN [db |-> d, res |-> "Check"]
    ELSE IF v.email # NullText /\ \E x \in d.Patients : x.email = v.email
      THEN [db |-> d, res |-> "Unique"]
    ELSE [db |-> [d EXCEPT
                    !.Patients = @ \cup
                        {[patient_id |-> d.seq.Patients + 1,
                          full_name |-> v.full_name, email |-> v.email]},
                    !.seq.Patients = @ + 1],
          res |-> "ok"]

(* app.patient_new (POST): strip the fields, require a name, INSERT the    *)
(* stripped values as they are, commit; an IntegrityError is reported.     *)
CreatePatient(d, f) ==
    LET v == [full_name |-> Strip(f.full_name), gender |-> Strip(f.gender),
              email |-> Strip(f.email)]
    IN  IF v.full_name = ""
          THEN [db |-> d, res |-> "Validation"]
          ELSE InsertPatient(d, v)

(* app.doctor_new (POST): strip, require both fields, INSERT, commit *)
CreateDoctor(d, f) ==
    LET name == Strip(f.full_name)
        spec == Strip(f.specialization)
    IN  IF name = "" \/ spec = ""
          THEN [db |-> d, res |-> "Validation"]
          ELSE [db |-> [d EXCEPT
                          !.Doctors = @ \cup
                              {[doctor_id |-> d.seq.Doctors + 1,
                                full_name |-> name]},
                          !.seq.Doctors = @ + 1],
                res |-> "ok"]

----------------------------------------------------------------------------
(* Reports and listings: the SELECT statements *)

(* The dates asked of the utilization report; the last one is no full date. *)
Dates == {"2025-08-30", "2025-08-31", "2025-08"}

(* Doctors LEFT JOIN Appointments (status != 'Cancelled') GROUP BY doctor:  *)
(* COUNT(a.appointment_id) is 0 for a doctor nothing joins to.              *)
PerDoctorRowsInnerJoin(d) ==
    { [doctor_id |-> x.doctor_id, doctor |-> x.full_name,
       total |-> Cardinality({ a \in d.Appointments :
                     a.doctor_id = x.doctor_id /\ a.status # "Cancelled" })]
      : x \in { y \in d.Doctors :
                  \E a \in d.Appointments :
                      a.doctor_id = y.doctor_id /\ a.status # "Cancelled" } }

PerDoctorRows(d) ==
    { [doctor_id |-> x.doctor_id, doctor |-> x.full_name,
       total |-> Cardinality({ a \in d.Appointments :
                     a.doctor_id = x.doctor_id /\ a.status # "Cancelled" })]
      : x \in d.Doctors }

(* ORDER BY total DESC, doctor ASC; rows equal in both come out in group   *)
(* order, that is by doctor_id.                                            *)
PerDoctorBefore(x, y) ==
    \/ x.total > y.total
    \/ x.total = y.total /\ TextLess(x.doctor, y.doctor)
    \/ x.total = y.total /\ x.doctor = y.doctor /\ x.doctor_id < y.doctor_id

(* hospital_app.report_appointments_per_doctor, and per_doc of app.reports *)
ReportAppointmentsPerDoctor(d) ==
    LET rows == Sorted(PerDoctorRows(d), PerDoctorBefore)
    IN  [i \in DOMAIN rows |-> <<rows[i].doctor, rows[i].total>>]

(* Rooms LEFT JOIN Appointments on room_id, the date and the status.  A    *)
(* NULL room_id equals no room_id, so such an appointment joins to no room. *)
UtilizationRowsAnyDate(d, date) ==
    { [room_id |-> x.room_id, room_number |-> x.room_number,
       count |-> Cardinality({ a \in d.Appointments :
                     /\ a.room_id = x.room_id
                     /\ a.status # "Cancelled" })]
      : x \in d.Rooms }

UtilizationRows(d, date) ==
    { [room_id |-> x.room_id, room_number |-> x.room_number,
       count |-> Cardinality({ a \in d.Appointments :
                     /\ a.room_id = x.room_id
                     /\ Substr(a.start_time, 10) = Bytes[date]
                     /\ a.status # "Cancelled" })]
      : x \in d.Rooms }

(* ORDER BY r.room_number; room_number is UNIQUE *)
RoomBefore(x, y) == TextLess(x.room_number, y.room_number)

(* hospital_app.report_daily_utilization(date_prefix) *)
ReportDailyUtilization(d, date) ==
    LET rows == Sorted(UtilizationRows(d, date), RoomBefore)
    IN  [i \in DOMAIN rows |-> <<rows[i].room_number, rows[i].count>>]

(* Appointments JOIN Patients JOIN Doctors: the rows of app.appointments *)
AppointmentRows(d) ==
    { [appointment_id |-> a.appointment_id,
       patient_id |-> a.patient_id,
       patient |-> (CHOOSE x \in d.Patients : x.patient_id = a.patient_id).full_name,
       doctor |-> (CHOOSE x \in d.Doctors : x.doctor_id = a.doctor_id).full_name,
       start_time |-> a.start_time, status |-> a.status]
      : a \in { b \in d.Appointments :
                  PatientExists(d, b.patient_id) /\ DoctorExists(d, b.doctor_id) } }

(* ORDER BY a.start_time DESC.  Rows of equal start_time keep the order of *)
(* the scan that feeds the sorter, idx_appt_patient_time: patient_id, then *)
(* appointment_id.                                                         *)
AppointmentBeforeAscending(x, y) ==
    \/ TextLess(x.start_time, y.start_time)
    \/ /\ x.start_time = y.start_time
       /\ \/ x.patient_id < y.patient_id
          \/ x.patient_id = y.patient_id /\ x.appointment_id < y.appointment_id

AppointmentBefore(x, y) ==
    \/ TextLess(y.start_time, x.start_time)
    \/ /\ x.start_time = y.start_time
       /\ \/ x.patient_id < y.patient_id
          \/ x.patient_id = y.patient_id /\ x.appointment_id < y.appointment_id

(* app.appointments (GET /appointments) *)
ListAppointments(d) == Sorted(AppointmentRows(d), AppointmentBefore)

(* ORDER BY full_name; equal names come out in rowid order *)
PatientBefore(x, y) ==
    \/ TextLess(x.full_name, y.full_name)
    \/ x.full_name = y.full_name /\ x.patient_id < y.patient_id

DoctorBefore(x, y) ==
    \/ TextLess(x.full_name, y.full_name)
    \/ x.full_name = y.full_name /\ x.doctor_id < y.doctor_id

(* app.patients (GET /patients) and app.doctors (GET /doctors) *)
ListPatients(d) == Sorted(d.Patients, PatientBefore)
ListDoctors(d) == Sorted(d.Doctors, DoctorBefore)

----------------------------------------------------------------------------
(* Initial state: the store right after init_db on an empty database *)

Init ==
    /\ db = SeedSql(EmptyDb)
    /\ last = [kind |-> "init", req |-> NoRequest, res |-> "ok", id |-> NULL,
               n |-> 0]
    /\ created = 0
    /\ pc = [c \in Callers |-> "idle"]
    /\ req = [c \in Callers |-> NoRequest]
    /\ res = [c \in Callers |-> "none"]
    /\ work = [c \in Callers |-> db]
    /\ writer = NoWriter
    /\ raced = {}

raceVars == <<pc, req, res, work, writer, raced>>

----------------------------------------------------------------------------
(* Spec: whole handlers, one after the other *)

(* One booking: app.book (POST /book), or the CLI's --book, which runs the *)
(* same INSERT through hospital_app.book_appointment.                     *)
Book(r) ==
    LET out == BookAppointment(db, r)
    IN  /\ out.res = "ok" => db.seq.Appointments < MaxAppts
        /\ db' = out.db
        /\ created' = IF out.res = "ok" THEN created + 1 ELSE created
        /\ last' = [kind |-> "book", req |-> r, res |-> out.res,
                    id |-> out.id, n |-> 0]
        /\ UNCHANGED raceVars

ChangeStatus(id, s) ==
    /\ \E a \in db.Appointments : a.appointment_id = id /\ a.status = "Booked"
    /\ db' = SetStatus(db, id, s)
    /\ last' = [kind |-> "status", req |-> NoRequest, res |-> s, id |-> id,
                n |-> 0]
    /\ UNCHANGED <<created, raceVars>>

(* app.patient_delete *)
PatientDelete(p) ==
    /\ db' = DeletePatient(db, p)
    /\ last' = [kind |-> "patient_delete",
                req |-> [NoRequest EXCEPT !.patient_id = p],
                res |-> "ok", id |-> NULL,
                n |-> Cardinality({a \in db.Appointments : a.patient_id = p})]
    /\ UNCHANGED <<created, raceVars>>

(* app.doctor_delete *)
DoctorDelete(k) ==
    /\ db' = DeleteDoctor(db, k)
    /\ last' = [kind |-> "doctor_delete",
                req |-> [NoRequest EXCEPT !.doctor_id = k],
                res |-> "ok", id |-> NULL,
                n |-> Cardinality({a \in db.Appointments : a.doctor_id = k})]
    /\ UNCHANGED <<created, raceVars>>

RoomDelete(k) ==
    /\ db' = DeleteRoom(db, k)
    /\ last' = [kind |-> "room_delete",
                req |-> [NoRequest EXCEPT !.room_id = k],
                res |-> "ok", id |-> NULL,
                n |-> Cardinality({a \in db.Appointments : a.room_id = k})]
    /\ UNCHANGED <<created, raceVars>>

(* hospital_app.init_db on the existing store (CLI --init, app.ensure_db) *)
InitDb ==
    /\ db' = SeedSql(db)
    /\ last' = [kind |-> "init", req |-> NoRequest, res |-> "ok", id |-> NULL,
                n |-> 0]
    /\ UNCHANGED <<created, raceVars>>

Next ==
    \/ \E r \in Requests : Book(r)
    \/ \E id \in 1..MaxAppts, s \in {"Completed", "Cancelled"} : ChangeStatus(id, s)
    \/ \E p \in PatientIds : PatientDelete(p)
    \/ \E k \in DoctorIds : DoctorDelete(k)
    \/ \E k \in RoomIds : RoomDelete(k)
    \/ InitDb

Spec == Init /\ [][Next]_vars

----------------------------------------------------------------------------
(* SpecAdmin: patients, doctors and rooms come and go, the store is seeded *)
(* again, pages are read.  SpecReports: bookings, cancellations and room   *)
(* deletes, with the reports and listings read in between.                 *)

(* The bookings whose appointments the reports and listings show. *)
ReportRequests ==
    { [patient_id |-> 2, doctor_id |-> 1, room_id |-> NULL, start_time |-> T1,
       end_time |-> NullText, notes |-> ""],
      [patient_id |-> 2, doctor_id |-> 3, room_id |-> 1, start_time |-> T1,
       end_time |-> NullText, notes |-> ""],
      [patient_id |-> 2, doctor_id |-> 1, room_id |-> 1, start_time |-> T3,
       end_time |-> NullText, notes |-> ""] }

(* app.patient_new (POST /patients/new) *)
PatientNew(f) ==
    LET out == CreatePatient(db, f)
    IN  /\ out.res = "ok" => db.seq.Patients < MaxPatients
        /\ db' = out.db
        /\ last' = [kind |-> "patient_new", req |-> f, res |-> out.res,
                    id |-> NULL, n |-> 0]
        /\ UNCHANGED <<created, raceVars>>

(* app.doctor_new (POST /doctors/new) *)
DoctorNew(f) ==
    LET out == CreateDoctor(db, f)
    IN  /\ out.res = "ok" => db.seq.Doctors < MaxDoctors
        /\ db' = out.db
        /\ last' = [kind |-> "doctor_new", req |-> f, res |-> out.res,
                    id |-> NULL, n |-> 0]
        /\ UNCHANGED <<created, raceVars>>

(* app.home (GET /): ensure_db() runs init_db() on every request, then the *)
(* page reads the doctors, the patients and the global counts.             *)
Home ==
    /\ db' = SeedSql(db)
    /\ last' = [kind |-> "home", req |-> NoRequest, res |-> "ok", id |-> NULL,
                n |-> 0]
    /\ UNCHANGED <<created, raceVars>>

(* app.reports (GET /reports): per-doctor report, global counts, top-10    *)
(* room load; three SELECTs.                                               *)
Reports ==
    /\ db' = db
    /\ last' = [kind |-> "reports", req |-> NoRequest, res |-> "ok",
                id |-> NULL, n |-> 0]
    /\ UNCHANGED <<created, raceVars>>

(* hospital_app.report_appointments_per_doctor and                         *)
(* report_daily_utilization (CLI --report, --util): one SELECT each.       *)
CliReports ==
    /\ db' = db
    /\ last' = [kind |-> "cli_reports", req |-> NoRequest, res |-> "ok",
                id |-> NULL, n |-> 0]
    /\ UNCHANGED <<created, raceVars>>

(* app.appointments, app.patients, app.doctors: the listings *)
Listings ==
    /\ db' = db
    /\ last' = [kind |-> "listings", req |-> NoRequest, res |-> "ok",
                id |-> NULL, n |-> 0]
    /\ UNCHANGED <<created, raceVars>>

NextAdmin ==
    \/ \E f \in PatientForms : PatientNew(f)
    \/ \E f \in DoctorForms : DoctorNew(f)
    \/ PatientDelete(1)
    \/ DoctorDelete(1)
    \/ RoomDelete(1)
    \/ InitDb
    \/ Home
    \/ Reports
    \/ CliReports

SpecAdmin == Init /\ [][NextAdmin]_vars

NextReports ==
    \/ \E f \in DoctorForms : DoctorNew(f)
    \/ \E r \in ReportRequests : Book(r)
    \/ \E id \in 1..MaxAppts : ChangeStatus(id, "Cancelled")
    \/ DoctorDelete(1)
    \/ RoomDelete(1)
    \/ InitDb
    \/ Reports
    \/ CliReports
    \/ Listings

SpecReports == Init /\ [][NextReports]_vars

----------------------------------------------------------------------------
(* SpecRace: bookings on separate connections, step by step *)

InFlight(c) == pc[c] \in {"open", "txn", "failed", "dopen", "dtxn"}

(* SQLite admits one writing connection at a time: the INSERT needs the    *)
(* database's RESERVED lock, which its holder keeps until it commits or    *)
(* closes.                                                                  *)
LockIgnored(c) == TRUE

LockPerTable(c) == IF writer = NoWriter THEN TRUE ELSE pc[writer] = "dtxn"

LockFree(c) == writer = NoWriter

(* connect() / get_db(): open a connection for one booking *)
Connect(c, r) ==
    /\ pc[c] = "idle"
    /\ pc' = [pc EXCEPT ![c] = "open"]
    /\ req' = [req EXCEPT ![c] = r]
    /\ res' = [res EXCEPT ![c] = "none"]
    /\ work' = [work EXCEPT ![c] = db]
    /\ raced' = IF \E o \in Callers \ {c} : InFlight(o)
                  THEN raced \cup {c} \cup { o \in Callers : InFlight(o) }
                  ELSE raced \ {c}
    /\ UNCHANGED <<db, last, created, writer>>

(* cur.execute(INSERT ...): the statement takes the write lock, runs the   *)
(* triggers against the committed store and writes into the connection's   *)
(* own transaction.  After a failed statement the transaction stays open.  *)
ExecInsert(c) ==
    LET st == InsertAppointment(db, req[c])
    IN  /\ pc[c] = "open"
        /\ LockFree(c)
        /\ st.res = "ok" => db.seq.Appointments < MaxAppts
        /\ writer' = c
        /\ work' = [work EXCEPT ![c] = st.db]
        /\ res' = [res EXCEPT ![c] = st.res]
        /\ pc' = [pc EXCEPT ![c] = IF st.res = "ok" THEN "txn" ELSE "failed"]
        /\ UNCHANGED <<db, last, created, req, raced>>

(* cur.execute(INSERT ...) while another connection holds the lock: after  *)
(* the busy timeout sqlite3 raises OperationalError (database is locked).  *)
ExecBusy(c) ==
    /\ pc[c] = "open"
    /\ writer \notin {NoWriter, c}
    /\ res' = [res EXCEPT ![c] = "Locked"]
    /\ pc' = [pc EXCEPT ![c] = "failed"]
    /\ UNCHANGED <<db, last, created, req, work, writer, raced>>

(* conn.commit(); conn.close() *)
Commit(c) ==
    /\ pc[c] = "txn"
    /\ db' = work[c]
    /\ created' = created + 1
    /\ writer' = IF writer = c THEN NoWriter ELSE writer
    /\ pc' = [pc EXCEPT ![c] = "done"]
    /\ UNCHANGED <<last, req, res, work, raced>>

(* The failure path of app.book: conn.close() in the finally clause.  The  *)
(* open transaction is discarded and the lock released.                    *)
CloseFailed(c) ==
    /\ pc[c] = "failed"
    /\ writer' = IF writer = c THEN NoWriter ELSE writer
    /\ work' = [work EXCEPT ![c] = db]
    /\ pc' = [pc EXCEPT ![c] = "done"]
    /\ UNCHANGED <<db, last, created, req, res, raced>>

(* The handler returns; the caller may book again. *)
Return(c) ==
    /\ pc[c] = "done"
    /\ pc' = [pc EXCEPT ![c] = "idle"]
    /\ req' = [req EXCEPT ![c] = NoRequest]
    /\ res' = [res EXCEPT ![c] = "none"]
    /\ work' = [work EXCEPT ![c] = db]
    /\ raced' = raced \ {c}
    /\ UNCHANGED <<db, last, created, writer>>

NextRace ==
    \/ \E c \in Bookers, r \in Requests : Connect(c, r)
    \/ \E c \in Bookers : ExecInsert(c)
    \/ \E c \in Bookers : ExecBusy(c)
    \/ \E c \in Bookers : Commit(c)
    \/ \E c \in Bookers : CloseFailed(c)
    \/ \E c \in Bookers : Return(c)

SpecRace == Init /\ [][NextRace]_vars

----------------------------------------------------------------------------
(* SpecCascade: bookings racing with the delete of a patient or a doctor *)

CascadeRequests ==
    { [patient_id |-> 1, doctor_id |-> 1, room_id |-> NULL, start_time |-> T1,
       end_time |-> NullText, notes |-> ""],
      [patient_id |-> 1, doctor_id |-> 2, room_id |-> NULL, start_time |-> T1,
       end_time |-> NullText, notes |-> ""],
      [patient_id |-> 2, doctor_id |-> 1, room_id |-> NULL, start_time |-> T1,
       end_time |-> NullText, notes |-> ""] }

(* What a delete handler is asked to delete: patient 1 or doctor 1. *)
DeleteRequests ==
    { [NoRequest EXCEPT !.patient_id = 1], [NoRequest EXCEPT !.doctor_id = 1] }

(* DELETE FROM Patients / Doctors WHERE id = ?, with its cascade *)
DeleteStatement(d, q) ==
    IF q.patient_id # NULL THEN DeletePatient(d, q.patient_id)
                           ELSE DeleteDoctor(d, q.doctor_id)

(* get_db() in app.patient_delete / app.doctor_delete *)
ConnectDelete(c, q) ==
    /\ pc[c] = "idle"
    /\ pc' = [pc EXCEPT ![c] = "dopen"]
    /\ req' = [req EXCEPT ![c] = q]
    /\ res' = [res EXCEPT ![c] = "none"]
    /\ work' = [work EXCEPT ![c] = db]
    /\ raced' = IF \E o \in Callers \ {c} : InFlight(o)
                  THEN raced \cup {c} \cup { o \in Callers : InFlight(o) }
                  ELSE raced \ {c}
    /\ UNCHANGED <<db, last, created, writer>>

(* conn.execute(DELETE ...): takes the write lock; the row and, by the     *)
(* foreign-key action, its appointments go in the same statement, inside   *)
(* the connection's transaction.                                           *)
ExecDelete(c) ==
    /\ pc[c] = "dopen"
    /\ LockFree(c)
    /\ writer' = c
    /\ work' = [work EXCEPT ![c] = DeleteStatement(db, req[c])]
    /\ res' = [res EXCEPT ![c] = "ok"]
    /\ pc' = [pc EXCEPT ![c] = "dtxn"]
    /\ UNCHANGED <<db, last, created, req, raced>>

(* conn.execute(DELETE ...) while another connection holds the lock: the   *)
(* handler ends with OperationalError (database is locked); nothing was    *)
(* written and no lock is held.                                            *)
ExecDeleteBusy(c) ==
    /\ pc[c] = "dopen"
    /\ writer \notin {NoWriter, c}
    /\ res' = [res EXCEPT ![c] = "Locked"]
    /\ pc' = [pc EXCEPT ![c] = "done"]
    /\ UNCHANGED <<db, last, created, req, work, writer, raced>>

(* conn.commit(); conn.close() of the delete handler *)
CommitDelete(c) ==
    /\ pc[c] = "dtxn"
    /\ db' = work[c]
    /\ writer' = IF writer = c THEN NoWriter ELSE writer
    /\ pc' = [pc EXCEPT ![c] = "done"]
    /\ UNCHANGED <<last, created, req, res, work, raced>>

NextCascade ==
    \/ \E c \in Bookers, r \in CascadeRequests : Connect(c, r)
    \/ \E c \in Bookers : ExecInsert(c)
    \/ \E c \in Bookers : ExecBusy(c)
    \/ \E c \in Bookers : Commit(c)
    \/ \E c \in Bookers : CloseFailed(c)
    \/ \E c \in Callers \ Bookers, q \in DeleteRequests : ConnectDelete(c, q)
    \/ \E c \in Callers \ Bookers : ExecDelete(c)
    \/ \E c \in Callers \ Bookers : ExecDeleteBusy(c)
    \/ \E c \in Callers \ Bookers : CommitDelete(c)
    \/ \E c \in Callers : Return(c)

SpecCascade == Init /\ [][NextCascade]_vars

----------------------------------------------------------------------------
(* SpecRelease: callers of hospital_app.book_appointment in one process *)

ReleaseRequests ==
    { [patient_id |-> 1, doctor_id |-> 1, room_id |-> NULL, start_time |-> T1,
       end_time |-> NullText, notes |-> ""],
      [patient_id |-> 2, doctor_id |-> 1, room_id |-> NULL, start_time |-> T1,
       end_time |-> NullText, notes |-> ""],
      [patient_id |-> 2, doctor_id |-> 2, room_id |-> NULL, start_time |-> T2,
       end_time |-> NullText, notes |-> ""] }

(* The connection a failed book_appointment left behind. *)
Abandoned == "abandoned"

(* cur.execute raises inside book_appointment: the exception leaves the    *)
(* function past conn.commit() and conn.close(); there is no try/finally.  *)
(* The connection stays open with its transaction and its lock, out of     *)
(* the caller's reach.                                                     *)
Raise(c) ==
    /\ pc[c] = "failed"
    /\ pc' = [pc EXCEPT ![c] = "done"]
    /\ writer' = IF writer = c THEN Abandoned ELSE writer
    /\ UNCHANGED <<db, last, created, req, res, work, raced>>

(* The interpreter finalizes the abandoned connection (garbage collection  *)
(* of the frames the traceback held, or process exit): the transaction is  *)
(* rolled back and the lock released.                                      *)
Finalize ==
    /\ writer = Abandoned
    /\ writer' = NoWriter
    /\ UNCHANGED <<db, last, created, pc, req, res, work, raced>>

NextRelease ==
    \/ \E c \in Bookers, r \in ReleaseRequests : Connect(c, r)
    \/ \E c \in Bookers : ExecInsert(c)
    \/ \E c \in Bookers : ExecBusy(c)
    \/ \E c \in Bookers : Commit(c)
    \/ \E c \in Bookers : Raise(c)
    \/ Finalize
    \/ \E c \in Bookers : Return(c)

SpecRelease == Init /\ [][NextRelease]_vars

----------------------------------------------------------------------------
(* Properties *)

Active(a) == a.status # "Cancelled"

BookStep == last'.kind = "book"

(* C1: doctor conflict invariant. No two distinct appointments with the    *)
(* same doctor_id and start_time are both not Cancelled.                   *)
C1_DoctorConflictInvariant ==
    \A a, b \in db.Appointments :
        (a # b /\ a.doctor_id = b.doctor_id /\ a.start_time = b.start_time)
            => ~(Active(a) /\ Active(b))

(* A doctor's slot holds a Completed appointment, and a booking for that   *)
(* very slot has just been turned away.                                    *)
C1_Witness ==
    /\ last.kind = "book" /\ last.res = "DoctorConflict"
    /\ \E a \in db.Appointments :
          /\ a.doctor_id = last.req.doctor_id
          /\ a.start_time = last.req.start_time
          /\ a.status = "Completed"

(* C2: room conflict invariant. No two distinct appointments with the same *)
(* non-null room_id and the same start_time are both not Cancelled; and a  *)
(* booking without a room is never rejected by the room rule.              *)
C2_RoomConflictInvariant ==
    /\ \A a, b \in db.Appointments :
          (a # b /\ a.room_id # NULL /\ a.room_id = b.room_id
                 /\ a.start_time = b.start_time)
              => ~(Active(a) /\ Active(b))
    /\ (last.kind = "book" /\ last.req.room_id = NULL)
          => last.res # "RoomConflict"

(* A room-less booking has just succeeded next to another active room-less *)
(* appointment of another doctor at the same start_time.                   *)
C2_Witness ==
    /\ last.kind = "book" /\ last.res = "ok" /\ last.req.room_id = NULL
    /\ \E a, b \in db.Appointments :
          /\ a.appointment_id = last.id /\ b # a
          /\ a.room_id = NULL /\ b.room_id = NULL
          /\ a.start_time = b.start_time /\ a.doctor_id # b.doctor_id
          /\ Active(a) /\ Active(b)

SameSlot(x, y) ==
    /\ x.start_time = y.start_time
    /\ \/ x.doctor_id = y.doctor_id
       \/ (x.room_id # NULL /\ x.room_id = y.room_id)

(* C3: of two booking attempts on separate connections for the same doctor *)
(* (or the same non-null room) and start_time at most one succeeds, and a  *)
(* booking that passed its conflict check commits into a store in which    *)
(* the check still holds (check and insert are indivisible).               *)
C3_AtMostOneSucceeds ==
    /\ \A a, b \in Callers :
          (a # b /\ pc[a] = "done" /\ pc[b] = "done"
                 /\ SameSlot(req[a], req[b]))
              => ~(res[a] = "ok" /\ res[b] = "ok")
    /\ \A c \in Callers :
          pc[c] = "txn" =>
              ~\E x \in db.Appointments : Active(x) /\ SameSlot(x, req[c])

(* Two overlapping attempts for one doctor and start_time have both ended: *)
(* one committed, the other was rejected by the doctor rule.               *)
C3_Witness ==
    \E a, b \in Callers :
        /\ a # b /\ raced = Bookers
        /\ pc[a] = "done" /\ pc[b] = "done"
        /\ req[a].doctor_id = req[b].doctor_id
        /\ req[a].start_time = req[b].start_time
        /\ res[a] = "ok" /\ res[b] = "DoctorConflict"

(* C4: a booking rejected by the doctor rule or the room rule leaves every *)
(* table (Patients, Doctors, Rooms, Appointments, AuditLog) as it was.     *)
C4_RejectedBookingChangesNothing ==
    [][(BookStep /\ last'.res \in {"DoctorConflict", "RoomConflict"})
          => db' = db]_vars

(* A booking has just been rejected by a conflict rule. *)
C4_Witness ==
    /\ last.kind = "book"
    /\ last.res \in {"DoctorConflict", "RoomConflict"}
    /\ db.Appointments # {}

AuditInserts(d) ==
    { i \in 1..Len(d.AuditLog) :
        d.AuditLog[i].entity = "Appointments" /\ d.AuditLog[i].action = "INSERT" }

AuditInsertCount(d) == Cardinality(AuditInserts(d))

(* C5: audit completeness. The number of ('Appointments','INSERT') audit   *)
(* entries equals the number of appointments ever created; a successful    *)
(* booking adds exactly one entry and no other step changes the number.    *)
C5_AuditCompleteness ==
    /\ [](AuditInsertCount(db) = created)
    /\ [][AuditInsertCount(db') = AuditInsertCount(db)
              + (IF BookStep /\ last'.res = "ok" THEN 1 ELSE 0)]_vars

(* A cascading delete has just removed an appointment whose audit entry    *)
(* is still there.                                                         *)
C5_Witness ==
    /\ last.kind \in {"patient_delete", "doctor_delete"} /\ last.n > 0
    /\ AuditInsertCount(db) > Cardinality(db.Appointments)

(* C6: cascade on delete. Every appointment's patient and doctor exist;    *)
(* deleting patient P (doctor D) removes exactly the appointments of P (D) *)
(* and leaves the others unchanged.                                        *)
C6_CascadeOnDelete ==
    /\ [](\A a \in db.Appointments :
            /\ \E x \in db.Patients : x.patient_id = a.patient_id
            /\ \E x \in db.Doctors : x.doctor_id = a.doctor_id)
    /\ [][/\ (last'.kind = "patient_delete" =>
                db'.Appointments =
                  { a \in db.Appointments : a.patient_id # last'.req.patient_id })
           /\ (last'.kind = "doctor_delete" =>
                db'.Appointments =
                  { a \in db.Appointments : a.doctor_id # last'.req.doctor_id })]_vars

(* A patient with an appointment has just been deleted while another       *)
(* patient's appointment stays.                                            *)
C6_Witness ==
    /\ last.kind = "patient_delete" /\ last.n > 0
    /\ db.Appointments # {}

(* C7: nullify on room delete. Deleting room R removes no appointment;     *)
(* the appointments that had room_id = R have room_id = NULL and are       *)
(* otherwise unchanged; all other appointments are unchanged.              *)
C7_NullifyOnRoomDelete ==
    [][last'.kind = "room_delete" =>
        LET k == last'.req.room_id
        IN  /\ Cardinality(db'.Appointments) = Cardinality(db.Appointments)
            /\ \A a \in db.Appointments :
                  \E b \in db'.Appointments :
                      /\ b.appointment_id = a.appointment_id
                      /\ b.patient_id = a.patient_id
                      /\ b.doctor_id = a.doctor_id
                      /\ b.start_time = a.start_time
                      /\ b.end_time = a.end_time
                      /\ b.notes = a.notes
                      /\ b.status = a.status
                      /\ b.room_id = IF a.room_id = k THEN NULL ELSE a.room_id]_vars

(* A room with an appointment that carries an end_time and notes has just  *)
(* been deleted.                                                           *)
C7_Witness ==
    /\ last.kind = "room_delete" /\ last.n > 0
    /\ \E a \in db.Appointments :
          a.room_id = NULL /\ a.end_time # NullText /\ a.notes # ""

(* Every appointment in d that shares the doctor and start_time with r,    *)
(* or r's room and start_time, is Cancelled, and r's references exist.     *)
SlotFree(d, r) ==
    /\ \A a \in d.Appointments :
          (a.doctor_id = r.doctor_id /\ a.start_time = r.start_time)
              => a.status = "Cancelled"
    /\ r.room_id # NULL =>
          \A a \in d.Appointments :
              (a.room_id = r.room_id /\ a.start_time = r.start_time)
                  => a.status = "Cancelled"
    /\ \E x \in d.Patients : x.patient_id = r.patient_id
    /\ \E x \in d.Doctors : x.doctor_id = r.doctor_id
    /\ r.room_id # NULL => \E x \in d.Rooms : x.room_id = r.room_id

(* C8: cancelled appointments never count toward conflicts. A booking      *)
(* whose doctor slot (and room slot) holds only Cancelled appointments and *)
(* whose patient, doctor and room exist succeeds and stores its row.       *)
C8_CancelledNeverCount ==
    [][(BookStep /\ SlotFree(db, last'.req)) =>
          /\ last'.res = "ok"
          /\ \E a \in db'.Appointments \ db.Appointments :
                /\ a.doctor_id = last'.req.doctor_id
                /\ a.patient_id = last'.req.patient_id
                /\ a.start_time = last'.req.start_time
                /\ a.status = "Booked"]_vars

(* A doctor has just been re-booked, for another patient, at the           *)
(* start_time of a Cancelled appointment.                                  *)
C8_Witness ==
    /\ last.kind = "book" /\ last.res = "ok"
    /\ \E a \in db.Appointments :
          /\ a.status = "Cancelled"
          /\ a.doctor_id = last.req.doctor_id
          /\ a.start_time = last.req.start_time
          /\ a.patient_id # last.req.patient_id

MissingReference(d, r) ==
    \/ ~\E x \in d.Patients : x.patient_id = r.patient_id
    \/ ~\E x \in d.Doctors : x.doctor_id = r.doctor_id
    \/ (r.room_id # NULL /\ ~\E x \in d.Rooms : x.room_id = r.room_id)

(* C9: a booking that names a missing patient, doctor or room fails and    *)
(* writes nothing: no Appointments row and no AuditLog entry.              *)
C9_MissingReferenceWritesNothing ==
    [][(BookStep /\ MissingReference(db, last'.req)) =>
          (last'.res # "ok" /\ db' = db)]_vars

(* A booking has just failed on a foreign key, in a store that already     *)
(* holds audit entries.                                                    *)
C9_Witness ==
    /\ last.kind = "book" /\ last.res = "ForeignKey"
    /\ MissingReference(db, last.req)
    /\ Len(db.AuditLog) > 0

DoctorCollision(d, r) ==
    \E a \in d.Appointments :
        Active(a) /\ a.doctor_id = r.doctor_id /\ a.start_time = r.start_time

RoomCollision(d, r) ==
    /\ r.room_id # NULL
    /\ \E a \in d.Appointments :
          Active(a) /\ a.room_id = r.room_id /\ a.start_time = r.start_time

(* C10: the conflict error names the violated rule. A booking that         *)
(* collides only on (doctor_id, start_time) fails with the doctor          *)
(* conflict, one that collides only on (room_id, start_time) fails with    *)
(* the room conflict.                                                      *)
C10_ErrorNamesRule ==
    [][BookStep =>
        /\ ((DoctorCollision(db, last'.req) /\ ~RoomCollision(db, last'.req))
              => last'.res = "DoctorConflict")
        /\ ((RoomCollision(db, last'.req) /\ ~DoctorCollision(db, last'.req))
              => last'.res = "RoomConflict")]_vars

(* A booking with another doctor has just been rejected for the room only. *)
C10_Witness ==
    /\ last.kind = "book" /\ last.res = "RoomConflict"
    /\ RoomCollision(db, last.req)
    /\ ~DoctorCollision(db, last.req)

(* C11: patient email uniqueness is nullable-safe. Creating a patient with *)
(* a non-empty full name is rejected for a duplicate email only if the     *)
(* supplied email is non-empty and equals the email of an existing         *)
(* patient; with an empty email field (and a valid gender) it succeeds,    *)
(* however many patients already have no email.                            *)
C11_EmptyEmailNeverCollides ==
    [][(last'.kind = "patient_new" /\ Strip(last'.req.full_name) # "")
        => /\ (last'.res = "Unique" =>
                 /\ Strip(last'.req.email) # ""
                 /\ \E x \in db.Patients : x.email = Strip(last'.req.email))
           /\ ((Strip(last'.req.email) = "" /\ Strip(last'.req.gender) \in Genders)
                 => last'.res = "ok")]_vars

(* C12: idempotent seeding. From every reachable store, init_db applied    *)
(* twice yields the store init_db yields once; right after a run of        *)
(* init_db a further run changes no table; and init_db on the empty store  *)
(* leaves exactly two patients, two doctors and three rooms.               *)
C12_IdempotentSeeding ==
    /\ SeedSql(SeedSql(db)) = SeedSql(db)
    /\ (last.kind \in {"init", "home"} => SeedSql(db) = db)
    /\ Cardinality(SeedSql(EmptyDb).Patients) = 2
    /\ Cardinality(SeedSql(EmptyDb).Doctors) = 2
    /\ Cardinality(SeedSql(EmptyDb).Rooms) = 3
    /\ SeedSql(EmptyDb).Appointments = {}

(* init_db has just run on a store where seed patient 1 was deleted and    *)
(* another patient took her email: the seed row was skipped, not raised.   *)
C12_Witness ==
    /\ last.kind = "init"
    /\ ~PatientExists(db, 1)
    /\ \E x \in db.Patients : x.email = "alice@example.com"
    /\ Cardinality(db.Doctors) = 3

(* C13: appointments-per-doctor report. One row per doctor, doctors with   *)
(* no appointment included with count 0; each count is the number of the   *)
(* doctor's appointments that are not Cancelled; rows are ordered by count *)
(* descending, ties by doctor name ascending.                              *)
C13_PerDoctorReport ==
    LET rep == ReportAppointmentsPerDoctor(db)
        n == Len(rep)
        Row(x) == <<x.full_name,
                    Cardinality({ a \in db.Appointments :
                        a.doctor_id = x.doctor_id /\ Active(a) })>>
    IN  /\ n = Cardinality(db.Doctors)
        /\ \A x \in db.Doctors :
              Cardinality({ i \in 1..n : rep[i] = Row(x) })
                = Cardinality({ y \in db.Doctors : Row(y) = Row(x) })
        /\ \A i, j \in 1..n :
              i < j => \/ rep[i][2] > rep[j][2]
                       \/ /\ rep[i][2] = rep[j][2]
                          /\ ~TextLess(rep[j][1], rep[i][1])

(* The report has just run: one doctor leads with one appointment, two     *)
(* doctors with none follow in name order, one of them with a cancelled    *)
(* appointment only.                                                       *)
C13_Witness ==
    /\ last.kind \in {"reports", "cli_reports"}
    /\ ReportAppointmentsPerDoctor(db)
         = << <<"Dr. Nimal Fernando", 1>>, <<"Dr. Isuri Ranasinghe", 0>>,
              <<"Dr. Nimal Fernando", 0>> >>
    /\ \E a \in db.Appointments : ~Active(a) /\ DoctorExists(db, a.doctor_id)

RECURSIVE SumOfCounts(_)
SumOfCounts(rep) ==
    IF rep = <<>> THEN 0 ELSE Head(rep)[2] + SumOfCounts(Tail(rep))

OnDate(a, date) == Substr(a.start_time, 10) = Bytes[date]

(* C14: room utilization for a date. For every date asked, one row per     *)
(* room, rooms without a match included with count 0; each count is the    *)
(* number of appointments with that room_id whose start_time begins with   *)
(* the date and that are not Cancelled; rows are in ascending room number; *)
(* appointments without a room are counted for no room.                    *)
C14_RoomUtilization ==
    \A date \in Dates :
        LET rep == ReportDailyUtilization(db, date)
            n == Len(rep)
            Hits(k) == Cardinality({ a \in db.Appointments :
                           a.room_id = k /\ OnDate(a, date) /\ Active(a) })
        IN  /\ n = Cardinality(db.Rooms)
            /\ \A x \in db.Rooms :
                  \E i \in 1..n : rep[i] = <<x.room_number, Hits(x.room_id)>>
            /\ \A i, j \in 1..n : i < j => TextLess(rep[i][1], rep[j][1])
            /\ SumOfCounts(rep)
                 = Cardinality({ a \in db.Appointments :
                       a.room_id # NULL /\ OnDate(a, date) /\ Active(a) })

(* The report has just run on a store where room 1 was deleted, nulling an *)
(* appointment of 2025-08-31, and seeded again: the room counts its        *)
(* appointment of 2025-08-30 and nothing on 2025-08-31.                    *)
C14_Witness ==
    /\ last.kind = "cli_reports"
    /\ \E a \in db.Appointments :
          a.room_id = NULL /\ a.start_time = T3 /\ Active(a)
    /\ ReportDailyUtilization(db, "2025-08-30")
         = << <<"C101", 1>>, <<"C102", 0>>, <<"W201", 0>> >>
    /\ ReportDailyUtilization(db, "2025-08-31")
         = << <<"C101", 0>>, <<"C102", 0>>, <<"W201", 0>> >>

(* C15 as stated: the appointment listing is in ascending start_time, the  *)
(* patient and doctor listings in ascending full name.                     *)
C15_ListingsAscending ==
    LET appts == ListAppointments(db)
        pats == ListPatients(db)
        docs == ListDoctors(db)
    IN  /\ \A i, j \in DOMAIN appts :
              i < j => ~TextLess(appts[j].start_time, appts[i].start_time)
        /\ \A i, j \in DOMAIN pats :
              i < j => ~TextLess(pats[j].full_name, pats[i].full_name)
        /\ \A i, j \in DOMAIN docs :
              i < j => ~TextLess(docs[j].full_name, docs[i].full_name)

(* C15, amended: the appointment listing holds every appointment once, in  *)
(* descending start_time; the patient and doctor listings hold every row   *)
(* once, in ascending full name.                                           *)
C15_ListingsOrdered ==
    LET appts == ListAppointments(db)
        pats == ListPatients(db)
        docs == ListDoctors(db)
    IN  /\ { appts[i].appointment_id : i \in DOMAIN appts }
             = { a.appointment_id : a \in db.Appointments }
        /\ Len(appts) = Cardinality(db.Appointments)
        /\ \A i, j \in DOMAIN appts :
              i < j => ~TextLess(appts[i].start_time, appts[j].start_time)
        /\ { pats[i] : i \in DOMAIN pats } = db.Patients
        /\ Len(pats) = Cardinality(db.Patients)
        /\ \A i, j \in DOMAIN pats :
              i < j => ~TextLess(pats[j].full_name, pats[i].full_name)
        /\ { docs[i] : i \in DOMAIN docs } = db.Doctors
        /\ Len(docs) = Cardinality(db.Doctors)
        /\ \A i, j \in DOMAIN docs :
              i < j => ~TextLess(docs[j].full_name, docs[i].full_name)

(* The listings have just run: the appointment of 2025-08-31 that was      *)
(* booked first is listed before the one of 2025-08-30, and the doctor     *)
(* with id 2 is listed before the two namesakes with ids 1 and 3.          *)
C15_Witness ==
    /\ last.kind = "listings"
    /\ Len(ListAppointments(db)) = 2
    /\ ListAppointments(db)[1].start_time = T3
    /\ ListAppointments(db)[1].appointment_id = 1
    /\ ListAppointments(db)[2].start_time = T1
    /\ Len(ListPatients(db)) = 2
    /\ Len(ListDoctors(db)) = 3
    /\ ListDoctors(db)[1].doctor_id = 2
    /\ ListDoctors(db)[3].doctor_id = 3

(* C16: read paths are read-only. The home page with its global counts,    *)
(* the reports page (per-doctor report, counts, top-10 room load) and the  *)
(* command-line reports leave every table as it was; a deleted patient,    *)
(* doctor or room does not exist again afterwards.                         *)
C16_ReadPathsChangeNothing ==
    [][last'.kind \in {"home", "reports", "cli_reports"} => db' = db]_vars

(* C19: appointment ids are fresh. The id of a successful booking is       *)
(* larger than the id of every appointment ever created, those removed by  *)
(* a cascading delete included; the new row has status Booked; no two      *)
(* audit entries carry the same appointment_id.                            *)
C19_FreshIds ==
    /\ [](\A i, j \in AuditInserts(db) :
            i # j => db.AuditLog[i].appointment_id # db.AuditLog[j].appointment_id)
    /\ [][(BookStep /\ last'.res = "ok") =>
            /\ \A i \in AuditInserts(db) :
                  db.AuditLog[i].appointment_id < last'.id
            /\ \A a \in db.Appointments : a.appointment_id < last'.id
            /\ \E a \in db'.Appointments :
                  a.appointment_id = last'.id /\ a.status = "Booked"
            /\ Cardinality(db'.Appointments) = Cardinality(db.Appointments) + 1]_vars

(* A booking has just succeeded with id 2 after the appointment with id 1  *)
(* was removed by a cascading delete.                                      *)
C19_Witness ==
    /\ last.kind = "book" /\ last.res = "ok" /\ last.id = 2
    /\ db.Appointments # {}
    /\ \A a \in db.Appointments : a.appointment_id = 2
    /\ Len(db.AuditLog) = 2

NoOrphan(d) ==
    \A a \in d.Appointments :
        /\ \E x \in d.Patients : x.patient_id = a.patient_id
        /\ \E x \in d.Doctors : x.doctor_id = a.doctor_id

ParentGone(d, r) ==
    \/ \A x \in d.Patients : x.patient_id # r.patient_id
    \/ \A x \in d.Doctors : x.doctor_id # r.doctor_id

Targets(q, r) ==
    \/ q.patient_id # NULL /\ q.patient_id = r.patient_id
    \/ q.doctor_id # NULL /\ q.doctor_id = r.doctor_id

(* A booking's INSERT fails while another caller is deleting its patient   *)
(* or its doctor.                                                          *)
FailsDuringDelete(c) ==
    /\ pc[c] = "open" /\ pc'[c] = "failed"
    /\ \E o \in Callers \ {c} :
          pc[o] \in {"dopen", "dtxn"} /\ Targets(req[o], req[c])

(* A committed appointment that is not Cancelled holds the doctor, or the  *)
(* room, of booking r at its start_time.                                   *)
DoctorTaken(d, r) ==
    \E a \in d.Appointments :
        Active(a) /\ a.doctor_id = r.doctor_id /\ a.start_time = r.start_time

RoomTaken(d, r) ==
    /\ r.room_id # NULL
    /\ \E a \in d.Appointments :
          Active(a) /\ a.room_id = r.room_id /\ a.start_time = r.start_time

C18_FailedBookingReleases ==
    [][\A c \in Callers :
          /\ ((pc[c] = "failed" /\ pc'[c] # "failed" /\ writer = c)
                => writer' = NoWriter)
          /\ ((pc[c] = "open" /\ res'[c] = "Locked")
                => writer \in Callers /\ pc[writer] \in {"txn", "failed"})]_vars

====
